---- MODULE Spec2Model ----
(***************************************************************************)
(* Request orchestration layer of the OpenDota client                      *)
(* (src/src/opendota/client.py): on-disk response cache keyed by request   *)
(* identity, rate-limit gate, status classification.                       *)
(*                                                                         *)
(* Python strings are sequences of one-character strings, so that          *)
(* concatenation, strip, split and replace are computed as the code        *)
(* computes them.  A dict is the sequence of its (key, value) items in     *)
(* insertion order, with pairwise distinct keys.                           *)
(***************************************************************************)
EXTENDS Integers, Sequences, FiniteSets, TLC

(***************************************************************************)
(* Bounds of the model.                                                    *)
(***************************************************************************)
MaxParams == 2
MaxDelay == 2
MaxTime == 2
MaxWritten == 1
MaxHandles == 3

None == "None"

(***************************************************************************)
(* String helpers (Python str methods used by the client).                 *)
(***************************************************************************)
\* The characters of the model in code-point order; str comparison in Python
\* is by code point.
CodePoints ==
    << " ", "'", "(", ")", ",", ".", "/", "0", "1", "2", "3", "4", "5", "6", "7",
       "8", "9", ":", "[", "]", "_", "a", "b", "c", "d", "e", "h", "i", "k", "m",
       "n", "o", "p", "r", "s", "t", "y" >>

Ord(c) == CHOOSE i \in 1..Len(CodePoints) : CodePoints[i] = c

\* str.__lt__: lexicographic by code point, a proper prefix is smaller.
RECURSIVE StrLess(_, _)
StrLess(s, t) ==
    IF t = << >> THEN FALSE
    ELSE IF s = << >> THEN TRUE
    ELSE IF Head(s) = Head(t) THEN StrLess(Tail(s), Tail(t))
    ELSE Ord(Head(s)) < Ord(Head(t))

\* str.lstrip(c) / str.rstrip(c) / str.strip(c) for a one-character set.
RECURSIVE Lstrip(_, _)
Lstrip(s, c) == IF s # << >> /\ Head(s) = c THEN Lstrip(Tail(s), c) ELSE s

RECURSIVE Rstrip(_, _)
Rstrip(s, c) ==
    IF s # << >> /\ s[Len(s)] = c THEN Rstrip(SubSeq(s, 1, Len(s) - 1), c) ELSE s

Strip(s, c) == Rstrip(Lstrip(s, c), c)

StartsWith(s, p) == Len(p) <= Len(s) /\ SubSeq(s, 1, Len(p)) = p

\* str.replace(old, new), old non-empty: non-overlapping, left to right.
RECURSIVE Replace(_, _, _)
Replace(s, old, new) ==
    IF s = << >> THEN << >>
    ELSE IF StartsWith(s, old)
         THEN new \o Replace(SubSeq(s, Len(old) + 1, Len(s)), old, new)
         ELSE << Head(s) >> \o Replace(Tail(s), old, new)

\* str.split(sep) for a one-character separator; "".split("/") is [""].
RECURSIVE Split(_, _)
Split(s, sep) ==
    IF \A i \in 1..Len(s) : s[i] # sep THEN << s >>
    ELSE LET i == CHOOSE j \in 1..Len(s) :
                      s[j] = sep /\ \A k \in 1..(j - 1) : s[k] # sep
         IN  << SubSeq(s, 1, i - 1) >> \o Split(SubSeq(s, i + 1, Len(s)), sep)

\* sep.join(parts)
RECURSIVE Join(_, _)
Join(parts, sep) ==
    IF parts = << >> THEN << >>
    ELSE IF Len(parts) = 1 THEN parts[1]
    ELSE parts[1] \o sep \o Join(Tail(parts), sep)

\* str(n) for an int n >= 0
RECURSIVE IntStr(_)
IntStr(n) ==
    LET d == << "0", "1", "2", "3", "4", "5", "6", "7", "8", "9" >>[(n % 10) + 1]
    IN  IF n < 10 THEN << d >> ELSE IntStr(n \div 10) \o << d >>

\* repr(s) of a str without quote characters: 's'
StrRepr(s) == << "'" >> \o s \o << "'" >>

\* str((key, value)) of a (str, int) tuple: ('key', value)
TupleStr(item) ==
    << "(" >> \o StrRepr(item[1]) \o << ",", " " >> \o IntStr(item[2]) \o << ")" >>

\* str(list of tuples): [('a', 1), ('b', 2)]
RECURSIVE ItemsStr(_)
ItemsStr(items) ==
    IF items = << >> THEN << >>
    ELSE IF Len(items) = 1 THEN TupleStr(items[1])
    ELSE TupleStr(items[1]) \o << ",", " " >> \o ItemsStr(Tail(items))

ListStr(items) == << "[" >> \o ItemsStr(items) \o << "]" >>

\* tuple.__lt__ on (key, value): by key, then by value.
TupleLess(x, y) == StrLess(x[1], y[1]) \/ (x[1] = y[1] /\ x[2] < y[2])

\* Insert x into the sorted sequence s, after the elements not greater than it.
RECURSIVE InsertSorted(_, _)
InsertSorted(x, s) ==
    IF s = << >> THEN << x >>
    ELSE IF TupleLess(x, Head(s)) THEN << x >> \o s
    ELSE << Head(s) >> \o InsertSorted(x, Tail(s))

RECURSIVE SortItems(_)
SortItems(items) ==
    IF items = << >> THEN << >>
    ELSE InsertSorted(items[Len(items)], SortItems(SubSeq(items, 1, Len(items) - 1)))

\* Mutation: the items are hashed in insertion order.
sorted_unsorted(items) == items

\* sorted(params.items())
sorted(items) == SortItems(items)

(***************************************************************************)
(* Cache file name.                                                        *)
(***************************************************************************)
BASE_URL ==
    << "h", "t", "t", "p", "s", ":", "/", "/", "a", "p", "i", ".", "o", "p", "e",
       "n", "d", "o", "t", "a", ".", "c", "o", "m", "/", "a", "p", "i" >>

\* The params argument: None, or a dict given by its items in insertion order.
NoParams == [none |-> TRUE, items |-> << >>]
Dict(items) == [none |-> FALSE, items |-> items]

\* bool(params): None and the empty dict are falsy.
Truthy(params) == ~params.none /\ params.items # << >>

\* url = f"{self.BASE_URL}/{endpoint.lstrip('/')}"
UrlOf(endpoint) == BASE_URL \o << "/" >> \o Lstrip(endpoint, "/")

\* cache_key: the URL, followed by str(sorted(params.items())) for truthy params.
cache_key(url, params) ==
    IF Truthy(params) THEN url \o ListStr(sorted(params.items)) ELSE url

\* hashlib.md5(...).hexdigest(): a symbolic digest, equal exactly for equal
\* inputs (MD5 taken as collision-free).
md5_hexdigest(s) == [md5 |-> s]

\* The endpoint directory: the first two path segments joined by "_", or the
\* only segment.
endpoint_dir(url) ==
    LET endpoint_parts == Split(Strip(Replace(url, BASE_URL, << >>), "/"), "/")
    IN  IF Len(endpoint_parts) > 1
        THEN Join(SubSeq(endpoint_parts, 1, 2), << "_" >>)
        ELSE endpoint_parts[1]

\* data_dir / "cache" / endpoint_dir / f"{hash_digest}.json"
_get_cache_filename(url, params) ==
    [dir |-> endpoint_dir(url), name |-> md5_hexdigest(cache_key(url, params))]

(***************************************************************************)
(* Cache files.  A file is missing, or cannot be opened (open raises an    *)
(* OSError), or holds bytes that are no text in the default encoding       *)
(* (reading raises UnicodeDecodeError), or holds a text.  A decoded JSON    *)
(* value is named by its Python repr.                                      *)
(***************************************************************************)
Missing == [kind |-> "missing", text |-> ""]
Unreadable == [kind |-> "unreadable", text |-> ""]
BadBytes == [kind |-> "badbytes", text |-> ""]
Text(text) == [kind |-> "text", text |-> text]

\* json.load / response.json(): the decoded value, or JSONDecodeError.
json_loads(text) ==
    CASE text = "null" -> [ok |-> TRUE, value |-> None]
      [] text = "true" -> [ok |-> TRUE, value |-> "True"]
      [] text = "false" -> [ok |-> TRUE, value |-> "False"]
      [] text = "0" -> [ok |-> TRUE, value |-> "0"]
      [] text = "1" -> [ok |-> TRUE, value |-> "1"]
      [] text = "1.5" -> [ok |-> TRUE, value |-> "1.5"]
      [] text = "\"\"" -> [ok |-> TRUE, value |-> "''"]
      [] text = "\"a\"" -> [ok |-> TRUE, value |-> "'a'"]
      [] text = "[]" -> [ok |-> TRUE, value |-> "[]"]
      [] text \in {"[1]", "[\n  1\n]"} -> [ok |-> TRUE, value |-> "[1]"]
      [] text = "{}" -> [ok |-> TRUE, value |-> "{}"]
      [] text \in {"{\"a\":1}", "{\n  \"a\": 1\n}"} -> [ok |-> TRUE, value |-> "{'a': 1}"]
      [] OTHER -> [ok |-> FALSE, value |-> "JSONDecodeError"]

\* json.dump(data, f, indent=2)
json_dumps(data) ==
    CASE data = None -> "null"
      [] data = "True" -> "true"
      [] data = "False" -> "false"
      [] data = "0" -> "0"
      [] data = "1" -> "1"
      [] data = "1.5" -> "1.5"
      [] data = "''" -> "\"\""
      [] data = "'a'" -> "\"a\""
      [] data = "[]" -> "[]"
      [] data = "[1]" -> "[\n  1\n]"
      [] data = "{}" -> "{}"
      [] data = "{'a': 1}" -> "{\n  \"a\": 1\n}"

\* The value returned by _load_from_cache, or the exception that leaves it:
\* only JSONDecodeError and IOError are caught.
_load_from_cache(content) ==
    IF content.kind = "missing" THEN [raised |-> FALSE, value |-> None]
    ELSE IF content.kind = "unreadable" THEN [raised |-> FALSE, value |-> None]
    ELSE IF content.kind = "badbytes"
         THEN [raised |-> TRUE, value |-> "UnicodeDecodeError"]
    ELSE LET r == json_loads(content.text)
         IN  [raised |-> FALSE, value |-> IF r.ok THEN r.value ELSE None]

\* Outcomes of the write: it succeeds, open() fails, or the dump fails after
\* open(.., "w") has truncated the file.
Io(kind, written) == [kind |-> kind, written |-> written]
IoOk == Io("ok", 0)
IoOutcomes ==
    {IoOk, Io("open_fails", 0)} \cup {Io("write_fails", n) : n \in 0..MaxWritten}

\* The first n characters of a text, all of it when it is shorter.
Prefix(text, n) == SubSeq(text, 1, IF n < Len(text) THEN n ELSE Len(text))

\* The content of the file after _save_to_cache; IOError is swallowed.  A write
\* that fails leaves the characters that had reached the file.
_save_to_cache(content, data, io) ==
    CASE io.kind = "ok" -> Text(json_dumps(data))
      [] io.kind = "open_fails" -> content
      [] io.kind = "write_fails" -> Text(Prefix(json_dumps(data), io.written))

(***************************************************************************)
(* Requests and responses.                                                 *)
(***************************************************************************)
Tasks == {1, 2}
Endpoints == { << "m", "/", "1" >> }
ParamChoices == {NoParams, Dict(<< >>), Dict(<< << << "a" >>, 1 >> >>)}

\* The cache files these requests name, listed; the state refers to a file by
\* its place in the list (0: no file).
RECURSIVE SetToSeq(_)
SetToSeq(S) ==
    IF S = {} THEN << >>
    ELSE LET x == CHOOSE y \in S : TRUE IN << x >> \o SetToSeq(S \ {x})

FileNames ==
    SetToSeq({_get_cache_filename(UrlOf(e), p) : e \in Endpoints, p \in ParamChoices})
Files == 1..Len(FileNames)
FileOf(path) == CHOOSE f \in Files : FileNames[f] = path
NoFile == 0
NoPath == [dir |-> << >>, name |-> md5_hexdigest(<< >>)]

Statuses == {200, 204, 404, 429, 500}
Responses ==
    {[kind |-> "response", status_code |-> 200, text |-> x] :
        x \in {"null", "{\"a\":1}", "boom"}}
    \cup {[kind |-> "response", status_code |-> c, text |-> "boom"] :
        c \in Statuses \ {200}}
    \cup {[kind |-> "error", status_code |-> 0, text |-> "TimeoutException"]}

VARIABLES
    api_key,             \* self.api_key: None or the credential
    delay,               \* self.delay
    auth_method,         \* self.auth_method
    _last_request_time,  \* self._last_request_time
    _client,             \* self._client: None or the open httpx client
    cache,               \* the files under data_dir/cache
    now,                 \* real (monotonic) time, the clock of asyncio.sleep
    skew,                \* time.time() minus real time minus Epoch
    task,                \* the _request coroutines
    lastCallAt,          \* real time of the latest transport call, -1 if none
    last200,             \* per file: how the latest status-200 cacheable GET stored it
    probe,               \* inputs and results of the pure computation under study
    open_handles,        \* the httpx.AsyncClient objects created and not yet closed
    created,             \* how many were created; self._client, when set, is the latest
    closer,              \* the close() coroutines
    op,                  \* the latest operation started on the client
    scope,               \* TRUE inside "async with client"
    serial,              \* TRUE while no operation was started during another
    waiting              \* the tasks asleep in the gate, in the order they started

config == << api_key, delay, auth_method >>
history == << lastCallAt, last200 >>
lifecycle == << open_handles, created, closer, op, scope, serial >>
vars == << api_key, delay, auth_method, _last_request_time, _client, cache, now,
           skew, task, lastCallAt, last200, probe, open_handles, created,
           closer, op, scope, serial, waiting >>

\* time.time() when the client is constructed at real time 0, as a small number
\* larger than every interval.
Epoch == MaxDelay + MaxTime + 1

\* time.time()
WallClock == Epoch + now + skew

NoOutcome == [kind |-> "pending", value |-> None, status_code |-> 0, text |-> ""]
Returned(value) == [kind |-> "return", value |-> value, status_code |-> 200, text |-> ""]
Raised(kind, status_code, text) ==
    [kind |-> kind, value |-> None, status_code |-> status_code, text |-> text]

NoCall == [params |-> NoParams, authorization |-> None]

\* The frame of a _request coroutine.  params is the mapping as it was passed,
\* given the content of the caller's mapping object now; current_time and
\* marker_read are the clock and the marker as the gate read them before its
\* sleep, wake_at the real time at which the sleep ends.
IdleTask ==
    [pc |-> "idle", method |-> "GET", endpoint |-> << >>, params |-> NoParams,
     given |-> NoParams, use_cache |-> FALSE, force |-> FALSE,
     cache_file |-> NoFile, current_time |-> 0, marker_read |-> 0,
     wake_at |-> 0, sent |-> NoCall, calls |-> 0,
     response |-> [kind |-> "none", status_code |-> 0, text |-> ""],
     outcome |-> NoOutcome]

\* A close() coroutine: idle, suspended in aclose() of the handle it found
\* (target), or ended, by returning (done) or with aclose()'s exception.
Closers == {1, 2}
IdleCloser == [pc |-> "idle", kind |-> "close", target |-> 0]

NoProbe == [url |-> << >>, p1 |-> NoParams, p2 |-> NoParams, f1 |-> NoPath,
            f2 |-> NoPath, done |-> FALSE]

\* At most one file of the cache root is damaged when the client starts (an
\* unparseable text is what a failed write leaves).
InitCaches ==
    {[f \in Files |-> Missing]}
    \cup {[f \in Files |-> IF f = g THEN c ELSE Missing] :
            g \in Files, c \in {Unreadable, BadBytes}}

\* A newly constructed client at real time 0: with or without a credential,
\* with the gate's interval zero or positive; auth_method is read only when a
\* credential is set, and is the default without one.
Init ==
    /\ api_key \in {None, "k"}
    /\ delay \in {0, MaxDelay}
    /\ auth_method \in {"header", "query"}
    /\ api_key = None => auth_method = "header"
    /\ _last_request_time = 0
    /\ _client = None
    /\ cache \in InitCaches
    /\ now = 0
    /\ skew = 0
    /\ task = [t \in Tasks |-> IdleTask]
    /\ lastCallAt = -1
    /\ last200 = [f \in Files |-> "none"]
    /\ probe = NoProbe
    /\ open_handles = {}
    /\ created = 0
    /\ closer = [c \in Closers |-> IdleCloser]
    /\ op = "init"
    /\ scope = FALSE
    /\ serial = TRUE
    /\ waiting = << >>

(***************************************************************************)
(* The rate-limit gate, _apply_rate_limit.                                 *)
(***************************************************************************)
\* Mutation: the gate does not look at the credential.
GateEngaged_without_key_test == delay > 0

\* if not self.api_key and self.delay > 0
GateEngaged == api_key = None /\ delay > 0

\* Mutation: the caller sleeps for the time already elapsed.
sleep_time_elapsed(time_since_last) == time_since_last

\* sleep_time = self.delay - time_since_last
sleep_time(time_since_last) == delay - time_since_last

\* Mutation: the marker is the time read before the sleep.
stamp_before_sleep(current_time, time_after) == current_time

\* self._last_request_time = time.time(), read again after the sleep
stamp(current_time, time_after) == time_after

(***************************************************************************)
(* The transport handle, _ensure_client.                                   *)
(***************************************************************************)
\* No fetch is in flight.
Quiet == \A u \in Tasks : task[u].pc \in {"idle", "done"}

\* No fetch and no close() is in flight.
Resting == Quiet /\ \A c \in Closers : closer[c].pc # "closing"

\* Mutation: a handle is created on every call.
creates_handle_always(client) == TRUE

\* if self._client is None: self._client = httpx.AsyncClient(...)
creates_handle(client) == client = None

\* _ensure_client: a new handle when creates_handle says so.
_ensure_client ==
    /\ creates_handle(_client) => created < MaxHandles
    /\ _client' = "client"
    /\ created' = IF creates_handle(_client) THEN created + 1 ELSE created
    /\ open_handles' = IF creates_handle(_client)
                       THEN open_handles \cup {created + 1}
                       ELSE open_handles

(***************************************************************************)
(* _request.                                                               *)
(***************************************************************************)
\* Mutation: the cache is used for every method.
uses_cache_any_method(use_cache, method) == use_cache

\* if use_cache and method == "GET"
uses_cache(use_cache, method) == use_cache /\ method = "GET"

\* if cached_data is not None
is_hit(cached_data) == cached_data # None

\* The credential on the outbound call: the Authorization header, or the
\* api_key item added to the caller's dict (a new dict when params is falsy);
\* the credential as a parameter value is written 1.
ApiKeyItem == << << "a", "p", "i", "_", "k", "e", "y" >>, 1 >>

SetItem(items, item) ==
    IF \E i \in 1..Len(items) : items[i][1] = item[1]
    THEN [i \in 1..Len(items) |-> IF items[i][1] = item[1] THEN item ELSE items[i]]
    ELSE Append(items, item)

\* The caller's mapping after lines 236-246: params["api_key"] = ... stores
\* into the caller's own dict unless "params or {}" made a new one.
given_after(params) ==
    IF api_key # None /\ auth_method = "query" /\ Truthy(params)
    THEN Dict(SetItem(params.items, ApiKeyItem))
    ELSE params

\* Mutation: the query placement sends the header as well.
Outbound_with_header(params) ==
    IF api_key = None THEN [params |-> params, authorization |-> None]
    ELSE [params |-> IF auth_method = "header" THEN params
                     ELSE Dict(SetItem(IF Truthy(params) THEN params.items ELSE << >>,
                                       ApiKeyItem)),
          authorization |-> "Bearer k"]

Outbound(params) ==
    IF api_key = None THEN [params |-> params, authorization |-> None]
    ELSE IF auth_method = "header"
         THEN [params |-> params, authorization |-> "Bearer k"]
    ELSE [params |-> Dict(SetItem(IF Truthy(params) THEN params.items ELSE << >>,
                                   ApiKeyItem)),
          authorization |-> None]

\* Mutation: 404 is reported as the generic error.
classify_without_404(status_code) ==
    CASE status_code = 200 -> "return"
      [] status_code = 429 -> "OpenDotaRateLimitError"
      [] OTHER -> "OpenDotaAPIError"

\* The branch taken on response.status_code
classify(status_code) ==
    CASE status_code = 200 -> "return"
      [] status_code = 404 -> "OpenDotaNotFoundError"
      [] status_code = 429 -> "OpenDotaRateLimitError"
      [] OTHER -> "OpenDotaAPIError"

\* The coroutine has returned or raised: its frame is gone, its outcome is what
\* the caller holds.  Kept with it for the properties: the response received,
\* the number of transport calls made and the force flag.
Done(tk, resp, outcome) ==
    [IdleTask EXCEPT !.pc = "done", !.response = resp, !.outcome = outcome,
                     !.calls = tk.calls, !.force = tk.force]

\* The task issues its transport call: credential attached, request sent.
\* params names the caller's dict wherever that dict is non-empty, so in the
\* query placement the caller's dict is the one that receives the item.
Issue(t, tk) ==
    /\ task' = [task EXCEPT ![t] =
            [tk EXCEPT !.pc = "requesting", !.sent = Outbound(tk.params),
                       !.given = given_after(tk.params),
                       !.calls = tk.calls + 1]]
    /\ lastCallAt' = now

\* A fetch starts: _ensure_client, cache lookup, and the gate up to its sleep
\* or, when no sleep is needed, up to the transport call.
Begin(t, method, endpoint, params, use_cache, force) ==
    /\ task[t].pc \in {"idle", "done"}
    /\ _ensure_client
    /\ op' = "fetch"
    /\ serial' = (serial /\ Resting)
    /\ LET url == UrlOf(endpoint)
           cached == uses_cache(use_cache, method)
           cache_file == IF cached THEN FileOf(_get_cache_filename(url, params))
                         ELSE NoFile
           loaded == _load_from_cache(IF cached THEN cache[cache_file] ELSE Missing)
           tk == [IdleTask EXCEPT !.method = method, !.endpoint = endpoint,
                                  !.params = params, !.given = params,
                                  !.use_cache = use_cache,
                                  !.force = force, !.cache_file = cache_file]
           current_time == WallClock
           time_since_last == current_time - _last_request_time
       IN  IF cached /\ ~force /\ loaded.raised
           THEN /\ task' = [task EXCEPT ![t] =
                        Done(tk, tk.response, Raised(loaded.value, 0, ""))]
                /\ UNCHANGED << _last_request_time, lastCallAt, waiting >>
           ELSE IF cached /\ ~force /\ is_hit(loaded.value)
           THEN /\ task' = [task EXCEPT ![t] =
                        Done(tk, tk.response, Returned(loaded.value))]
                /\ UNCHANGED << _last_request_time, lastCallAt, waiting >>
           ELSE IF GateEngaged /\ time_since_last < delay
           THEN /\ task' = [task EXCEPT ![t] =
                        [tk EXCEPT !.pc = "sleeping",
                                   !.current_time = current_time,
                                   !.marker_read = _last_request_time,
                                   !.wake_at = now + sleep_time(time_since_last)]]
                /\ waiting' = Append(waiting, t)
                /\ UNCHANGED << _last_request_time, lastCallAt >>
           ELSE /\ _last_request_time' =
                        IF GateEngaged THEN stamp(current_time, WallClock)
                        ELSE _last_request_time
                /\ Issue(t, tk)
                /\ UNCHANGED waiting
    /\ UNCHANGED << config, cache, now, skew, last200, probe, closer, scope >>

\* The sequence without the task t.
RECURSIVE Remove(_, _)
Remove(s, t) ==
    IF s = << >> THEN << >>
    ELSE IF Head(s) = t THEN Remove(Tail(s), t)
    ELSE << Head(s) >> \o Remove(Tail(s), t)

\* asyncio.sleep returns: the marker is set and the transport call issued; when
\* a close() has reset self._client during the sleep, self._client.request
\* raises AttributeError instead.
\* The event loop runs due timers in the order of their deadlines; deadlines
\* that fall at the same instant of the model differ by the microseconds between
\* each task's clock reads, so either of them may be run first.
Wake(t) ==
    /\ task[t].pc = "sleeping"
    /\ now >= task[t].wake_at
    /\ \A u \in Tasks :
            task[u].pc = "sleeping" => task[u].wake_at >= task[t].wake_at
    /\ _last_request_time' =
            stamp(task[t].current_time, WallClock)
    /\ IF _client = None
       THEN /\ task' = [task EXCEPT ![t] =
                    Done(task[t], task[t].response, Raised("AttributeError", 0, ""))]
            /\ UNCHANGED lastCallAt
       ELSE Issue(t, task[t])
    /\ waiting' = Remove(waiting, t)
    /\ UNCHANGED << config, _client, cache, now, skew, last200, probe, lifecycle >>

\* The transport call ends, with a response or with a transport-level failure;
\* the status is classified and a decoded 200 body is saved when caching was
\* requested.
Respond(t, resp, io) ==
    /\ task[t].pc = "requesting"
    /\ LET tk == task[t]
           kind == classify(resp.status_code)
           data == json_loads(resp.text)
           saves == tk.cache_file # NoFile /\ tk.use_cache
       IN  IF resp.kind = "error"
           THEN /\ io = IoOk
                /\ task' = [task EXCEPT ![t] =
                        Done(tk, resp, Raised(resp.text, 0, ""))]
                /\ UNCHANGED << cache, last200 >>
           ELSE IF kind = "return" /\ ~data.ok
           THEN /\ io = IoOk
                /\ task' = [task EXCEPT ![t] =
                        Done(tk, resp, Raised(data.value, 0, ""))]
                /\ UNCHANGED << cache, last200 >>
           ELSE IF kind = "return"
           THEN /\ saves \/ io = IoOk
                /\ task' = [task EXCEPT ![t] =
                        Done(tk, resp, Returned(data.value))]
                /\ cache' = IF saves
                            THEN [cache EXCEPT ![tk.cache_file] =
                                    _save_to_cache(cache[tk.cache_file], data.value, io)]
                            ELSE cache
                /\ last200' = IF saves
                              THEN [last200 EXCEPT ![tk.cache_file] =
                                      IF io # IoOk THEN "none"
                                      ELSE IF tk.force THEN "forced" ELSE "stored"]
                              ELSE last200
           ELSE /\ io = IoOk
                /\ task' = [task EXCEPT ![t] =
                        Done(tk, resp, Raised(kind, resp.status_code,
                                            IF kind = "OpenDotaAPIError"
                                            THEN resp.text ELSE ""))]
                /\ UNCHANGED << cache, last200 >>
    /\ UNCHANGED << config, _last_request_time, _client, now, skew,
                    lastCallAt, probe, lifecycle, waiting >>

\* Real time passes; time.time() follows it.
Tick ==
    /\ now < MaxTime
    /\ now' = now + 1
    /\ UNCHANGED << config, _last_request_time, _client, cache, skew, task,
                    history, probe, lifecycle, waiting >>

\* The calls made: get() with every combination of its arguments that the code
\* tells apart (force is read only when use_cache holds), and a non-GET call
\* with the default arguments.
Requests ==
    {[method |-> "GET", endpoint |-> e, params |-> p, use_cache |-> c[1], force |-> c[2]] :
        e \in Endpoints, p \in ParamChoices,
        c \in {<< TRUE, FALSE >>, << TRUE, TRUE >>, << FALSE, FALSE >>}}
    \cup {[method |-> "POST", endpoint |-> e, params |-> NoParams, use_cache |-> TRUE,
           force |-> FALSE] : e \in Endpoints}

Fetch ==
    /\ Quiet
    /\ \E r \in Requests :
            Begin(1, r.method, r.endpoint, r.params, r.use_cache, r.force)

Resume == Wake(1)

Answer == \E resp \in Responses, io \in IoOutcomes : Respond(1, resp, io)

Next == Fetch \/ Resume \/ Answer \/ Tick

Spec == Init /\ [][Next]_vars

(***************************************************************************)
(* The cache-key computation on its own: two parameter mappings for one    *)
(* URL, and the file names computed for them.                              *)
(***************************************************************************)
KeyNames == { << "a" >>, << "a", "b" >>, << "b" >> }
KeyItems == KeyNames \X {1, 2}
KeyUrls == {UrlOf(<< "h" >>), UrlOf(<< "m", "/", "1" >>)}

\* The dicts of at most MaxParams items, in every insertion order.
KeyDicts ==
    {Dict(items) : items \in
        {s \in UNION {[1..n -> KeyItems] : n \in 0..MaxParams} :
            \A i, j \in 1..Len(s) : i # j => s[i][1] # s[j][1]}}

InitKey ==
    /\ api_key = None
    /\ delay = 0
    /\ auth_method = "header"
    /\ _last_request_time = 0
    /\ _client = None
    /\ cache = [f \in Files |-> Missing]
    /\ now = 0
    /\ skew = 0
    /\ task = [t \in Tasks |-> IdleTask]
    /\ lastCallAt = -1
    /\ last200 = [f \in Files |-> "none"]
    /\ probe \in [url : KeyUrls, p1 : KeyDicts \cup {NoParams},
                  p2 : KeyDicts \cup {NoParams}, f1 : {NoPath}, f2 : {NoPath},
                  done : {FALSE}]
    /\ open_handles = {}
    /\ created = 0
    /\ closer = [c \in Closers |-> IdleCloser]
    /\ op = "init"
    /\ scope = FALSE
    /\ serial = TRUE
    /\ waiting = << >>

ComputeKeys ==
    /\ ~probe.done
    /\ probe' = [probe EXCEPT !.f1 = _get_cache_filename(probe.url, probe.p1),
                              !.f2 = _get_cache_filename(probe.url, probe.p2),
                              !.done = TRUE]
    /\ UNCHANGED << config, _last_request_time, _client, cache, now, skew, task,
                    history, lifecycle, waiting >>

NextKey == ComputeKeys

SpecKey == InitKey /\ [][NextKey]_vars

(***************************************************************************)
(* The transport handle over the client's life: "async with client", close *)
(* and fetches, on a client with a credential.  A caller may start an      *)
(* operation while another is suspended; serial tells the runs in which    *)
(* each operation was awaited before the next was started.                 *)
(***************************************************************************)
ScopeRequests == {r \in Requests : ~r.force /\ r.params = NoParams}

ScopeResponses ==
    {r \in Responses : r.text # "null" /\ r.status_code \in {0, 200, 404}}

InitScope ==
    /\ api_key = "k"
    /\ delay = MaxDelay
    /\ auth_method = "header"
    /\ _last_request_time = 0
    /\ _client = None
    /\ cache = [f \in Files |-> Missing]
    /\ now = 0
    /\ skew = 0
    /\ task = [t \in Tasks |-> IdleTask]
    /\ lastCallAt = -1
    /\ last200 = [f \in Files |-> "none"]
    /\ probe = NoProbe
    /\ open_handles = {}
    /\ created = 0
    /\ closer = [c \in Closers |-> IdleCloser]
    /\ op = "init"
    /\ scope = FALSE
    /\ serial = TRUE
    /\ waiting = << >>

\* close() up to its await: nothing to do without a handle, otherwise
\* aclose() of the handle held is awaited.  kind tells close() called by the
\* caller from close() called by __aexit__, which also leaves the scope.  The
\* call runs in the first frame that is free.
close_start(c, kind) ==
    /\ closer[c].pc # "closing"
    /\ \A d \in Closers : d < c => closer[d].pc = "closing"
    /\ kind = "exit" => scope
    /\ scope' = IF kind = "exit" THEN FALSE ELSE scope
    /\ op' = kind
    /\ serial' = (serial /\ Resting)
    /\ closer' = [closer EXCEPT ![c] =
            IF _client = None THEN [pc |-> "done", kind |-> kind, target |-> 0]
            ELSE [pc |-> "closing", kind |-> kind, target |-> created]]
    /\ UNCHANGED << config, _last_request_time, _client, cache, now, skew, task,
                    history, probe, open_handles, created, waiting >>

\* aclose() returns and self._client is reset, whatever it holds by now; or
\* aclose() raises and the assignment after it is not reached.
close_finish(c, aclose_ok) ==
    /\ closer[c].pc = "closing"
    /\ IF aclose_ok
       THEN /\ open_handles' = open_handles \ {closer[c].target}
            /\ _client' = None
            /\ closer' = [closer EXCEPT ![c].pc = "done"]
       ELSE /\ closer' = [closer EXCEPT ![c].pc = "raised"]
            /\ UNCHANGED << _client, open_handles >>
    /\ UNCHANGED << config, _last_request_time, cache, now, skew, task, history,
                    probe, created, op, scope, serial, waiting >>

\* __aenter__
aenter ==
    /\ ~scope
    /\ scope' = TRUE
    /\ op' = "enter"
    /\ serial' = (serial /\ Resting)
    /\ _ensure_client
    /\ UNCHANGED << config, _last_request_time, cache, now, skew, task, history,
                    probe, closer, waiting >>

Enter == aenter

\* __aexit__, reached when the body ends and when it raises.
Exit == \E c \in Closers : close_start(c, "exit")

\* An explicit close(), inside or outside the scope.
Close == \E c \in Closers : close_start(c, "close")

Closed == \E c \in Closers, aclose_ok \in BOOLEAN : close_finish(c, aclose_ok)

FetchScope ==
    \E r \in ScopeRequests :
        Begin(1, r.method, r.endpoint, r.params, r.use_cache, r.force)

AnswerScope == \E resp \in ScopeResponses : Respond(1, resp, IoOk)

NextScope == Enter \/ FetchScope \/ AnswerScope \/ Close \/ Exit \/ Closed

SpecScope == InitScope /\ [][NextScope]_vars

(***************************************************************************)
(* The gate under a system clock that is set while the client runs:        *)
(* time.time() follows the system clock, asyncio.sleep the loop's          *)
(* monotonic clock.  A client without credential, interval MaxDelay.       *)
(***************************************************************************)
ClockRequests ==
    {r \in Requests : r.method = "GET" /\ r.params = NoParams /\ ~r.force}

ClockResponses ==
    {r \in Responses : r.text # "null" /\ r.status_code \in {0, 200, 500}}

InitClock ==
    /\ api_key = None
    /\ delay = MaxDelay
    /\ auth_method = "header"
    /\ _last_request_time = 0
    /\ _client = None
    /\ cache = [f \in Files |-> Missing]
    /\ now = 0
    /\ skew = 0
    /\ task = [t \in Tasks |-> IdleTask]
    /\ lastCallAt = -1
    /\ last200 = [f \in Files |-> "none"]
    /\ probe = NoProbe
    /\ open_handles = {}
    /\ created = 0
    /\ closer = [c \in Closers |-> IdleCloser]
    /\ op = "init"
    /\ scope = FALSE
    /\ serial = TRUE
    /\ waiting = << >>

\* The system clock is set forward or backward (an NTP step, an operator);
\* real time is not changed by it.
ClockStep ==
    /\ \E s \in (0 - MaxTime)..MaxTime : s # skew /\ skew' = s
    /\ UNCHANGED << config, _last_request_time, _client, cache, now, task,
                    history, probe, lifecycle, waiting >>

FetchClock ==
    /\ Quiet
    /\ \E r \in ClockRequests :
            Begin(1, r.method, r.endpoint, r.params, r.use_cache, r.force)

AnswerClock == \E resp \in ClockResponses : Respond(1, resp, IoOk)

NextClock == FetchClock \/ Resume \/ AnswerClock \/ Tick \/ ClockStep

SpecClock == InitClock /\ [][NextClock]_vars

(***************************************************************************)
(* Overlapping fetches: the coroutines of several fetches on one client    *)
(* run as tasks of one event loop (asyncio.gather), a client without       *)
(* credential and with a positive interval.  A task runs without            *)
(* interruption between its await points, the sleep in the gate and the    *)
(* transport call.                                                         *)
(***************************************************************************)
GatherRequests ==
    {r \in Requests : r.method = "GET" /\ r.params = NoParams /\ ~r.force}

GatherResponses ==
    {r \in Responses : r.kind = "response" /\ r.text # "null"
                        /\ r.status_code \in {200, 500}}

InitGather ==
    /\ api_key = None
    /\ delay = MaxDelay
    /\ auth_method = "header"
    /\ _last_request_time = 0
    /\ _client = None
    /\ cache = [f \in Files |-> Missing]
    /\ now = 0
    /\ skew = 0
    /\ task = [t \in Tasks |-> IdleTask]
    /\ lastCallAt = -1
    /\ last200 = [f \in Files |-> "none"]
    /\ probe = NoProbe
    /\ open_handles = {}
    /\ created = 0
    /\ closer = [c \in Closers |-> IdleCloser]
    /\ op = "init"
    /\ scope = FALSE
    /\ serial = TRUE
    /\ waiting = << >>

FetchAny ==
    \E t \in Tasks, r \in GatherRequests :
        Begin(t, r.method, r.endpoint, r.params, r.use_cache, r.force)

ResumeAny == \E t \in Tasks : Wake(t)

AnswerAny == \E t \in Tasks, resp \in GatherResponses : Respond(t, resp, IoOk)

NextGather == FetchAny \/ ResumeAny \/ AnswerAny \/ Tick

SpecGather == InitGather /\ [][NextGather]_vars

(***************************************************************************)
(* The same with the scope and close() among the overlapping operations:   *)
(* a close() may be started while fetches or another close() are in        *)
(* flight, and a fetch while a close() is suspended in aclose().           *)
(***************************************************************************)
NextOverlap ==
    FetchAny \/ ResumeAny \/ AnswerAny \/ Tick \/ Enter \/ Close \/ Exit \/ Closed

SpecOverlap == InitGather /\ [][NextOverlap]_vars

(***************************************************************************)
(* The cache files of two fetches on one cache root: two paths and two     *)
(* parameter mappings, and the files computed for them.  An endpoint is    *)
(* the caller's string; one of them ends in the text of a parameter list.  *)
(***************************************************************************)
IdentityEndpoints ==
    { << "m", "/", "1" >>,
      << "m", "/", "1", "/", "x" >>,
      << "m", "/", "1", "/", "x", "[", "(", "'", "a", "'", ",", " ", "1", ")", "]" >> }

InitIdentity ==
    /\ api_key = None
    /\ delay = 0
    /\ auth_method = "header"
    /\ _last_request_time = 0
    /\ _client = None
    /\ cache = [f \in Files |-> Missing]
    /\ now = 0
    /\ skew = 0
    /\ task = [t \in Tasks |-> IdleTask]
    /\ lastCallAt = -1
    /\ last200 = [f \in Files |-> "none"]
    /\ probe \in [u1 : {UrlOf(e) : e \in IdentityEndpoints}, p1 : ParamChoices,
                  u2 : {UrlOf(e) : e \in IdentityEndpoints}, p2 : ParamChoices,
                  f1 : {NoPath}, f2 : {NoPath}, done : {FALSE}]
    /\ open_handles = {}
    /\ created = 0
    /\ closer = [c \in Closers |-> IdleCloser]
    /\ op = "init"
    /\ scope = FALSE
    /\ serial = TRUE
    /\ waiting = << >>

\* cache_file = self._get_cache_filename(url, params), for each of the two.
ComputeFiles ==
    /\ ~probe.done
    /\ probe' = [probe EXCEPT !.f1 = _get_cache_filename(probe.u1, probe.p1),
                              !.f2 = _get_cache_filename(probe.u2, probe.p2),
                              !.done = TRUE]
    /\ UNCHANGED << config, _last_request_time, _client, cache, now, skew, task,
                    history, lifecycle, waiting >>

NextIdentity == ComputeFiles

SpecIdentity == InitIdentity /\ [][NextIdentity]_vars

(***************************************************************************)
(* The cache store on its own: a decoded body is saved to a cache file,    *)
(* whatever the file held, and the file is loaded.                         *)
(***************************************************************************)
\* The values response.json() returns, one or two of every JSON kind, the
\* falsy ones among them.
JsonValues ==
    {None, "True", "False", "0", "1", "1.5", "''", "'a'", "[]", "[1]", "{}", "{'a': 1}"}

InitRoundTrip ==
    /\ api_key = None
    /\ delay = 0
    /\ auth_method = "header"
    /\ _last_request_time = 0
    /\ _client = None
    /\ \E f \in Files, c \in {Missing, Text("")} \cup {Text(json_dumps(w)) : w \in JsonValues} :
            /\ cache = [g \in Files |-> IF g = f THEN c ELSE Missing]
            /\ \E v \in JsonValues :
                    probe = [f |-> f, v |-> v, phase |-> "start", io |-> IoOk,
                             loaded |-> [raised |-> FALSE, value |-> None]]
    /\ now = 0
    /\ skew = 0
    /\ task = [t \in Tasks |-> IdleTask]
    /\ lastCallAt = -1
    /\ last200 = [f \in Files |-> "none"]
    /\ open_handles = {}
    /\ created = 0
    /\ closer = [c \in Closers |-> IdleCloser]
    /\ op = "init"
    /\ scope = FALSE
    /\ serial = TRUE
    /\ waiting = << >>

\* The write succeeds, or open() fails, or the write fails after any number
\* of characters.
Save ==
    /\ probe.phase = "start"
    /\ \E io \in {IoOk, Io("open_fails", 0)}
                \cup {Io("write_fails", n) : n \in 0..Len(json_dumps(probe.v))} :
            /\ cache' = [cache EXCEPT ![probe.f] =
                            _save_to_cache(cache[probe.f], probe.v, io)]
            /\ probe' = [probe EXCEPT !.phase = "saved", !.io = io]
    /\ UNCHANGED << config, _last_request_time, _client, now, skew, task, history,
                    lifecycle, waiting >>

Load ==
    /\ probe.phase = "saved"
    /\ probe' = [probe EXCEPT !.phase = "loaded",
                              !.loaded = _load_from_cache(cache[probe.f])]
    /\ UNCHANGED << config, _last_request_time, _client, cache, now, skew, task,
                    history, lifecycle, waiting >>

NextRoundTrip == Save \/ Load

SpecRoundTrip == InitRoundTrip /\ [][NextRoundTrip]_vars

(***************************************************************************)
(* Properties.                                                             *)
(***************************************************************************)
InFlight(tk) == tk.pc \in {"sleeping", "requesting"}
Lookup(tk) == tk.method = "GET" /\ tk.use_cache /\ ~tk.force
IssuesCall(t) == task[t].pc # "requesting" /\ task'[t].pc = "requesting"
ApiErrors == {"OpenDotaNotFoundError", "OpenDotaRateLimitError", "OpenDotaAPIError"}

\* C1: once a GET with use_cache has completed with status 200 and its body
\* is stored, a later GET of the same identity with use_cache and without
\* force is answered from the cache, whatever JSON body was stored: it never
\* goes on to the gate or to the transport.
C1_CacheHitShortCircuit ==
    \A t \in Tasks :
        InFlight(task[t]) /\ Lookup(task[t])
            => last200[task[t].cache_file] = "none"

\* C2: a forced GET with use_cache has issued exactly one transport call when
\* it ends, and once such a fetch has returned with status 200 and overwritten
\* the entry, the next fetch of the identity without force is answered with
\* the new body from the cache and does not go on to the transport.
C2_ForceRefresh ==
    \A t \in Tasks :
        /\ task[t].pc = "done" /\ task[t].force => task[t].calls = 1
        /\ InFlight(task[t]) /\ Lookup(task[t])
            => last200[task[t].cache_file] # "forced"

\* C3: without a credential and with an interval N > 0, two consecutive
\* transport calls are at least N apart in real time.
C3_Pacing ==
    [][\A t \in Tasks :
          IssuesCall(t) /\ api_key = None /\ delay > 0 /\ lastCallAt # -1
              => lastCallAt' - lastCallAt >= delay]_vars

\* Two transport calls exactly N apart, the second issued after a wait in the
\* gate.
C3_Witness ==
    /\ api_key = None /\ delay > 0
    /\ task[1].pc = "requesting" /\ task[1].wake_at = now
    /\ lastCallAt = now /\ now >= delay

\* C4: with a credential no fetch ever waits in the gate.
C4_CredentialBypass == api_key # None => \A t \in Tasks : task[t].pc # "sleeping"

\* On a client with a credential and an interval > 0, a transport call is
\* issued at the instant at which an earlier one was made and answered.
C4_Witness ==
    /\ api_key # None /\ delay > 0 /\ now = 0
    /\ task[1].pc = "requesting"
    /\ \E f \in Files : last200[f] # "none"

\* C5: the outcome of a fetch that received a response is decided by the
\* status alone: 200 returns the decoded body, 404 the not-found error, 429 the
\* rate-limited error, every other status the generic error with the status
\* code and the response text.
C5_StatusClassification ==
    \A t \in Tasks :
        LET tk == task[t] IN
        tk.pc = "done" /\ tk.response.kind = "response" =>
            CASE tk.response.status_code = 200 ->
                    tk.outcome = Returned(json_loads(tk.response.text).value)
              [] tk.response.status_code = 404 ->
                    tk.outcome = Raised("OpenDotaNotFoundError", 404, "")
              [] tk.response.status_code = 429 ->
                    tk.outcome = Raised("OpenDotaRateLimitError", 429, "")
              [] OTHER ->
                    tk.outcome = Raised("OpenDotaAPIError", tk.response.status_code,
                                        tk.response.text)

\* C6: a damaged cache file is a miss: no fetch ends because of the file, so a
\* fetch that ends without a transport call has returned a cached body.
C6_CorruptedEntryRecovery ==
    \A t \in Tasks :
        task[t].pc = "done" /\ task[t].calls = 0 => task[t].outcome.kind = "return"

\* C7: a step changes a cache file only as the end of a GET with use_cache
\* whose transport call returned status 200, and only the file of that fetch.
C7_CacheWriteFrame ==
    [][\A f \in Files :
          cache'[f] # cache[f] =>
              \E t \in Tasks :
                  /\ task[t].pc = "requesting" /\ task'[t].pc = "done"
                  /\ task[t].method = "GET" /\ task[t].use_cache
                  /\ task[t].cache_file = f
                  /\ task'[t].response.kind = "response"
                  /\ task'[t].response.status_code = 200]_vars

\* One entry was written by a fetch while the damaged file of another
\* identity is as it was.
C7_Witness ==
    \E f, g \in Files :
        /\ f # g
        /\ last200[f] = "stored" /\ cache[f] = Text(json_dumps("{'a': 1}"))
        /\ cache[g] = BadBytes
        /\ task[1].pc = "done" /\ task[1].outcome.kind = "OpenDotaNotFoundError"

\* C8 as stated: a step changes the marker if and only if it issues a
\* transport call, and then the marker is the time of the call.
C8_MarkerIffTransport ==
    [][IF \E t \in Tasks : IssuesCall(t)
       THEN _last_request_time' = WallClock'
       ELSE _last_request_time' = _last_request_time]_vars

\* C8 amended: the same on a client with no credential and an interval > 0;
\* on a client with a credential or an interval <= 0 the marker never changes.
C8_MarkerLifecycle ==
    [][IF GateEngaged /\ \E t \in Tasks : IssuesCall(t)
       THEN _last_request_time' = WallClock'
       ELSE _last_request_time' = _last_request_time]_vars

\* On a client without credential a fetch whose transport call timed out has
\* left the marker at the time of that call.
C8_Witness ==
    /\ GateEngaged
    /\ task[1].pc = "done" /\ task[1].outcome.kind = "TimeoutException"
    /\ lastCallAt >= delay
    /\ _last_request_time = Epoch + skew + lastCallAt

\* C9: a fetch issues at most one transport call; an error status ends it with
\* the error of that status, and a transport failure ends it with the
\* transport's own exception, after that one call.
C9_NoRetry ==
    \A t \in Tasks :
        LET tk == task[t] IN
        /\ tk.calls <= 1
        /\ tk.pc = "done" /\ tk.response.kind = "error" =>
              /\ tk.calls = 1
              /\ tk.outcome.kind = tk.response.text
              /\ tk.outcome.kind \notin ApiErrors
        /\ tk.pc = "done" /\ tk.response.kind = "response"
                /\ tk.response.status_code # 200 =>
              /\ tk.calls = 1
              /\ tk.outcome.kind =
                    CASE tk.response.status_code = 404 -> "OpenDotaNotFoundError"
                      [] tk.response.status_code = 429 -> "OpenDotaRateLimitError"
                      [] OTHER -> "OpenDotaAPIError"
              /\ tk.outcome.status_code = tk.response.status_code

\* A fetch has ended with the not-found error after its single transport call.
C9_Witness ==
    /\ task[1].pc = "done" /\ task[1].calls = 1
    /\ task[1].response.status_code = 404
    /\ task[1].outcome.kind = "OpenDotaNotFoundError"

SameItems(p, q) ==
    /\ ~p.none /\ ~q.none
    /\ {p.items[i] : i \in 1..Len(p.items)} = {q.items[i] : i \in 1..Len(q.items)}

\* C10: two mappings with the same items in different insertion orders give
\* the same cache file (name and directory), and so do None and the empty dict.
C10_KeyOrderIndependent ==
    probe.done /\ (SameItems(probe.p1, probe.p2)
                    \/ (~Truthy(probe.p1) /\ ~Truthy(probe.p2)))
        => probe.f1 = probe.f2

\* The file names of two different insertion orders of a two-item mapping.
C10_Witness ==
    /\ probe.done /\ SameItems(probe.p1, probe.p2)
    /\ Len(probe.p1.items) = 2 /\ probe.p1 # probe.p2
    /\ probe.f1 = probe.f2 /\ probe.f1 # NoPath

\* C11: a JSON value saved under an identity and loaded back is the value
\* saved, whichever JSON value it is, and the load does not report the entry
\* absent (None).
C11_RoundTrip ==
    probe.phase = "loaded" /\ probe.io = IoOk =>
        /\ ~probe.loaded.raised
        /\ probe.loaded.value = probe.v
        /\ is_hit(probe.loaded.value)

\* The step that ends task t's cacheable GET with a decoded status-200 body.
Ends200(t) ==
    /\ task[t].pc = "requesting" /\ task'[t].pc = "done"
    /\ task[t].method = "GET" /\ task[t].use_cache
    /\ task'[t].response.kind = "response"
    /\ task'[t].response.status_code = 200
    /\ json_loads(task'[t].response.text).ok

\* C12: when the write of such a fetch fails (the file does not
\* hold the body afterwards), the fetch returns the body, and a later lookup of
\* the same identity is not a cache hit.
C12_FailedSaveIsMiss ==
    [][\A t \in Tasks :
          LET f == task[t].cache_file
              body == json_loads(task'[t].response.text).value
          IN  Ends200(t) /\ cache'[f] # Text(json_dumps(body)) =>
                  /\ task'[t].outcome = Returned(body)
                  /\ \/ _load_from_cache(cache'[f]).raised
                     \/ ~is_hit(_load_from_cache(cache'[f]).value)]_vars

\* C13: with overlapping fetches on a client without credential and with
\* interval N > 0, a fetch that issues its transport call has read a marker
\* value that no fetch still waiting in the gate has read too, and the call
\* is at least N after the transport call before it.
C13_AtomicGate ==
    [][\A t \in Tasks :
          IssuesCall(t) /\ GateEngaged =>
              /\ \A u \in Tasks \ {t} :
                    task[u].pc = "sleeping" =>
                        task[u].marker_read #
                            (IF task[t].pc = "sleeping" THEN task[t].marker_read
                             ELSE _last_request_time)
              /\ lastCallAt # -1 => now - lastCallAt >= delay]_vars

\* C14: a fetch issues its transport call only when no fetch started before
\* it is still waiting to issue its own, and, on a client without credential
\* and with interval N > 0, at least N after the call before it.
C14_CallOrder ==
    [][\A t \in Tasks :
          IssuesCall(t) =>
              /\ waiting = << >> \/ Head(waiting) = t
              /\ GateEngaged /\ lastCallAt # -1 => lastCallAt' >= lastCallAt + delay]_vars

\* C15: over every sequence of scope entry, fetch, close and scope exit, each
\* awaited before the next is started, at most one handle is open and it is the one the
\* client holds; a handle is created only when none is held, by scope entry or
\* by a fetch (one answered from the cache too); when close() or the scope exit
\* has completed the client holds no handle and none is open; close() without
\* a handle changes nothing else; and a fetch after close() or scope exit holds
\* a new handle.
C15_HandleLifecycle ==
    [][serial' =>
       /\ Cardinality(open_handles') <= 1
       /\ open_handles' = (IF _client' = None THEN {} ELSE {created'})
       /\ open_handles' \ open_handles # {} => _client = None /\ op' \in {"enter", "fetch"}
       /\ \A c \in Closers :
            closer'[c] # closer[c] /\ closer'[c].pc = "done" =>
                _client' = None /\ open_handles' = {}
       /\ \A c \in Closers :
            closer[c].pc # "closing" /\ closer'[c] # closer[c] /\ _client = None =>
                /\ closer'[c].pc = "done"
                /\ UNCHANGED << config, _last_request_time, _client, cache, task,
                                history, open_handles, created >>
       /\ /\ op' = "fetch"
          /\ \E c \in Closers : closer[c].pc = "done" /\ closer[c].kind = op
          => _client' # None /\ open_handles' = {created'} /\ created' = created + 1]_vars

\* The scope has been left after a fetch that stored its body and a fetch
\* that raised not-found: no handle is held or open.
C15_Witness ==
    /\ serial /\ op = "exit" /\ ~scope /\ closer[1] = [pc |-> "done", kind |-> "exit", target |-> 1]
    /\ _client = None /\ open_handles = {}
    /\ task[1].pc = "done" /\ task[1].outcome.kind = "OpenDotaNotFoundError"
    /\ \E f \in Files : last200[f] = "stored"

InHeader(sent) == sent.authorization # None
InQuery(sent) ==
    \E i \in 1..Len(sent.params.items) : sent.params.items[i][1] = ApiKeyItem[1]

\* C16: a transport call of a client with a credential carries it in the
\* Authorization header and not in the query when the placement is "header",
\* in the api_key query parameter and not in a header when it is "query";
\* without a credential the call carries neither (the caller's own parameters
\* having no api_key item).
C16_ExclusivePlacement ==
    \A t \in Tasks :
        task[t].pc = "requesting" =>
            LET sent == task[t].sent IN
            /\ InHeader(sent) <=> api_key # None /\ auth_method = "header"
            /\ InQuery(sent) <=> api_key # None /\ auth_method = "query"
            /\ InHeader(sent) => sent.authorization = "Bearer k"
            /\ InQuery(sent) =>
                  \E i \in 1..Len(sent.params.items) : sent.params.items[i] = ApiKeyItem

\* A call of a client with the "query" placement: the caller's item and the
\* credential in the query, no Authorization header.
C16_Witness ==
    /\ api_key # None /\ auth_method = "query"
    /\ task[1].pc = "requesting"
    /\ task[1].sent = [params |-> Dict(<< << << "a" >>, 1 >>, ApiKeyItem >>),
                       authorization |-> None]

\* C17: a fetch ends with the generic API error only on a response whose
\* status is outside 200..299 and is neither 404 nor 429.
C17_GenericOnlyOutside2xx ==
    \A t \in Tasks :
        task[t].pc = "done" /\ task[t].outcome.kind = "OpenDotaAPIError" =>
            /\ task[t].response.kind = "response"
            /\ task[t].response.status_code \notin 200..299
            /\ task[t].response.status_code \notin {404, 429}

\* C18: whatever the system clock does between two calls, a fetch that goes
\* to sleep in the gate sleeps at most N, the first transport call of a client
\* is issued without a sleep, and a transport call is at least N of real time
\* after the one before it.
C18_MonotonicGate ==
    [][\A t \in Tasks :
          /\ task[t].pc # "sleeping" /\ task'[t].pc = "sleeping" =>
                task'[t].wake_at - now <= delay
          /\ IssuesCall(t) /\ lastCallAt = -1 => task[t].pc # "sleeping"
          /\ IssuesCall(t) /\ GateEngaged /\ lastCallAt # -1 =>
                now >= lastCallAt + delay]_vars

\* C19: when a fetch has issued its transport call, the mapping the caller
\* passed is as it was passed, and the cache file computed from it for the
\* same path is still the file of this fetch, so that a second fetch given the
\* same mapping looks up the entry this one stores.
C19_ParamsUnchanged ==
    \A t \in Tasks :
        task[t].pc = "requesting" =>
            /\ task[t].given = task[t].params
            /\ task[t].cache_file # NoFile =>
                  _get_cache_filename(UrlOf(task[t].endpoint), task[t].given)
                      = FileNames[task[t].cache_file]

\* The same identity: the same URL and the same set of parameters.
SameIdentity(u1, p1, u2, p2) ==
    /\ u1 = u2
    /\ SameItems(p1, p2) \/ (~Truthy(p1) /\ ~Truthy(p2))

\* C20: a cache entry belongs to one identity: two fetches whose URL or
\* parameter set differ use different cache files, so that the entry a fetch
\* reads is one stored for its own URL and parameter set, never a body
\* received for another.
C20_EntryOfOwnIdentity ==
    probe.done /\ ~SameIdentity(probe.u1, probe.p1, probe.u2, probe.p2)
        => probe.f1 # probe.f2

====
